---- MODULE Spec2Model ----
(***************************************************************************)
(* Model of struct Matrix (src/matrix.h): a matrix handle that owns a host *)
(* buffer (malloc/free) and a device buffer (cudaMalloc/cudaFree), with    *)
(* row-major and transposing host<->device transfers, move transfer and a  *)
(* tolerance comparison.                                                   *)
(*                                                                         *)
(* Every member function is an operator from a world (the matrices and the *)
(* two heaps) to the world after the call; the actions apply them.  The    *)
(* answers of the allocator and of the transfer engine are inputs of the   *)
(* operators.                                                              *)
(***************************************************************************)
EXTENDS Integers, Sequences, FiniteSets, TLC

VARIABLES matrix, hostHeap, devHeap, status, badFree, last

vars == <<matrix, hostHeap, devHeap, status, badFree, last>>

\* ------------------------------------------------------------------ bounds

\* Largest value of rows and of cols of the matrix of the transfer runs.
MaxDim == 3

\* Largest value of rows and of cols handed to the sized constructor in the
\* runs with two matrices (the default constructor gives the 0 x 0 matrix).
MaxMoveDim == 1

\* Largest tolerance and largest element perturbation of the comparison runs.
MaxDelta == 2

\* The matrix objects of the program: the two operands of a move transfer.
Mats == {"A", "B"}

\* ------------------------------------------------------------- the heaps

\* nullptr
NullPtr == 0

\* An element of a freshly allocated buffer: an indeterminate value.
Garbage == 0

\* Host addresses: one buffer per matrix and the temporary of Transposed.
HostPtrs == 1..(Cardinality(Mats) + 1)

\* Device addresses: one buffer per matrix.
DevPtrs == 1..Cardinality(Mats)

FreeBlock == [live |-> FALSE, mem |-> <<>>]

\* The lowest address that is not in use, NullPtr when there is none.
FirstFree(heap) ==
  IF \E p \in DOMAIN heap : ~heap[p].live
  THEN CHOOSE p \in DOMAIN heap :
         ~heap[p].live /\ \A q \in DOMAIN heap : ~heap[q].live => p <= q
  ELSE NullPtr

\* The world the operators work on.
World ==
  [matrix |-> matrix, hostHeap |-> hostHeap, devHeap |-> devHeap,
   status |-> status, badFree |-> badFree]

Running(w) == w.status = "running"

\* malloc(n * sizeof(double)): a block of n indeterminate elements, or NULL
\* when the allocator cannot satisfy the request (ok = FALSE).
Malloc(w, n, ok) ==
  LET p == FirstFree(w.hostHeap) IN
  IF ~ok \/ p = NullPtr
  THEN [w |-> w, p |-> NullPtr]
  ELSE [w |-> [w EXCEPT !.hostHeap[p] =
                 [live |-> TRUE, mem |-> [k \in 1..n |-> Garbage]]],
        p |-> p]

\* free(p): nothing for NULL; releasing a block that is not live is recorded.
Free(w, p) ==
  IF p = NullPtr THEN w
  ELSE IF ~w.hostHeap[p].live THEN [w EXCEPT !.badFree = TRUE]
  ELSE [w EXCEPT !.hostHeap[p] = FreeBlock]

\* cudaFree(p)
CudaFree(w, p) ==
  IF p = NullPtr THEN w
  ELSE IF ~w.devHeap[p].live THEN [w EXCEPT !.badFree = TRUE]
  ELSE [w EXCEPT !.devHeap[p] = FreeBlock]

\* The CE macro: a failed runtime call ends the process.
Abort(w) == [w EXCEPT !.status = "aborted"]

\* A null dereference or an access past the end of a block.
Crash(w) == [w EXCEPT !.status = "crashed"]

\* ------------------------------------------------------- misc utilities

Size(w, m) == w.matrix[m].rows * w.matrix[m].cols

IDX2C(i, j, ld) == (j * ld) + i

\* Whether p is the address of a live block of at least n elements.
Holds(heap, p, n) ==
  /\ p # NullPtr
  /\ heap[p].live
  /\ Len(heap[p].mem) >= n

\* The first n elements of src laid over dst.
Overlay(dst, src, n) ==
  [k \in 1..Len(dst) |-> IF k <= n THEN src[k] ELSE dst[k]]

\* cudaMalloc(&p, n * sizeof(double)); CE;  A request of zero bytes is
\* answered like any other: a block, or an error that CE turns into abort().
CudaMalloc(w, n, ok) ==
  LET p == FirstFree(w.devHeap) IN
  IF ~ok \/ p = NullPtr
  THEN [w |-> Abort(w), p |-> NullPtr]
  ELSE [w |-> [w EXCEPT !.devHeap[p] =
                 [live |-> TRUE, mem |-> [k \in 1..n |-> Garbage]]],
        p |-> p]

\* cudaMemcpy(dst, src, n * sizeof(double), cudaMemcpyHostToDevice); CE;
\* The runtime reports a failed transfer (ok = FALSE) and a null pointer.
MemcpyHostToDevice(w, dst, src, n, ok) ==
  IF ~ok THEN Abort(w)
  ELSE IF n = 0 THEN w
  ELSE IF dst = NullPtr \/ src = NullPtr THEN Abort(w)
  ELSE IF ~Holds(w.devHeap, dst, n) \/ ~Holds(w.hostHeap, src, n) THEN Crash(w)
  ELSE [w EXCEPT !.devHeap[dst].mem = Overlay(@, w.hostHeap[src].mem, n)]

\* cudaMemcpy(dst, src, n * sizeof(double), cudaMemcpyDeviceToHost); CE;
MemcpyDeviceToHost(w, dst, src, n, ok) ==
  IF ~ok THEN Abort(w)
  ELSE IF n = 0 THEN w
  ELSE IF dst = NullPtr \/ src = NullPtr THEN Abort(w)
  ELSE IF ~Holds(w.hostHeap, dst, n) \/ ~Holds(w.devHeap, src, n) THEN Crash(w)
  ELSE [w EXCEPT !.hostHeap[dst].mem = Overlay(@, w.devHeap[src].mem, n)]

\* ------------------------------------------------------------ the matrix

\* Matrix(): the default member initialisers.
EmptyMatrix ==
  [alive |-> TRUE, data |-> NullPtr, dev_data |-> NullPtr, rows |-> 0, cols |-> 0]

\* Storage that holds no matrix object.
NoMatrix == [EmptyMatrix EXCEPT !.alive = FALSE]

\* Matrix(int inCols, int inRows)
SizedMatrix(inCols, inRows) ==
  [EmptyMatrix EXCEPT !.cols = inCols, !.rows = inRows]

\* FreeHost with the slip of clearing the device pointer as well.
FreeHost_Both(w, m) ==
  IF w.matrix[m].data # NullPtr
  THEN [Free(w, w.matrix[m].data) EXCEPT !.matrix[m].data = NullPtr,
                                         !.matrix[m].dev_data = NullPtr]
  ELSE w

FreeHost(w, m) ==
  IF w.matrix[m].data # NullPtr
  THEN [Free(w, w.matrix[m].data) EXCEPT !.matrix[m].data = NullPtr]
  ELSE w

FreeDevice(w, m) ==
  IF w.matrix[m].dev_data # NullPtr
  THEN [CudaFree(w, w.matrix[m].dev_data) EXCEPT !.matrix[m].dev_data = NullPtr]
  ELSE w

\* ok: whether malloc can satisfy the request.  The result is not examined.
AllocHost(w, m, ok) ==
  LET w1 == FreeHost(w, m)
      r  == Malloc(w1, Size(w1, m), ok)
  IN  [r.w EXCEPT !.matrix[m].data = r.p]

\* ok: whether cudaMalloc succeeds.  CE ends the process when it does not.
AllocDevice(w, m, ok) ==
  LET w1 == FreeDevice(w, m)
      r  == CudaMalloc(w1, Size(w1, m), ok)
  IN  IF Running(r.w) THEN [r.w EXCEPT !.matrix[m].dev_data = r.p] ELSE r.w

\* The destructor with the slip of releasing the host buffer only.
Destructor_HostOnly(w, m) ==
  [FreeHost(w, m) EXCEPT !.matrix[m] = NoMatrix]

\* ~Matrix()
Destructor(w, m) ==
  [FreeDevice(FreeHost(w, m), m) EXCEPT !.matrix[m] = NoMatrix]

\* The move assignment with the slip of leaving other's pointers in place.
MoveAssign_NoReset(w, m, other) ==
  LET w1 == FreeDevice(FreeHost(w, m), m)
      o  == w1.matrix[other]
  IN  [w1 EXCEPT !.matrix[m].data = o.data,
                 !.matrix[m].dev_data = o.dev_data,
                 !.matrix[m].cols = o.cols,
                 !.matrix[m].rows = o.rows]

\* The move assignment with the slip of not taking other's cols and rows.
MoveAssign_KeepsDims(w, m, other) ==
  LET w1 == FreeDevice(FreeHost(w, m), m)
      o  == w1.matrix[other]
      w2 == [w1 EXCEPT !.matrix[m].data = o.data,
                       !.matrix[m].dev_data = o.dev_data]
  IN  [w2 EXCEPT !.matrix[other].data = NullPtr,
                 !.matrix[other].dev_data = NullPtr]

\* Matrix& operator=(Matrix&& other)
MoveAssign(w, m, other) ==
  LET w1 == FreeDevice(FreeHost(w, m), m)
      o  == w1.matrix[other]
      w2 == [w1 EXCEPT !.matrix[m].data = o.data,
                       !.matrix[m].dev_data = o.dev_data,
                       !.matrix[m].cols = o.cols,
                       !.matrix[m].rows = o.rows]
  IN  [w2 EXCEPT !.matrix[other].data = NullPtr,
                 !.matrix[other].dev_data = NullPtr]

\* Matrix(Matrix&& other)
MoveConstruct(w, m, other) ==
  MoveAssign([w EXCEPT !.matrix[m] = EmptyMatrix], m, other)

\* ------------------------------------------------ host <-> device transfers

\* The loops of Transposed with the slip of storing At(i, j) at its own
\* offset: a plain copy.
RECURSIVE TransposeLoop_Copy(_, _, _, _, _, _)
TransposeLoop_Copy(t, src, i, j, rows, cols) ==
  IF i >= rows THEN t
  ELSE IF j >= cols THEN TransposeLoop_Copy(t, src, i + 1, 0, rows, cols)
  ELSE TransposeLoop_Copy([t EXCEPT ![(i * cols + j) + 1] = src[(i * cols + j) + 1]],
                          src, i, j + 1, rows, cols)

\* The two loops of Transposed over C offsets: t[IDX2C(i, j, rows)] = At(i, j),
\* where At(i, j) is data[i * cols + j].
RECURSIVE TransposeLoop(_, _, _, _, _, _)
TransposeLoop(t, src, i, j, rows, cols) ==
  IF i >= rows THEN t
  ELSE IF j >= cols THEN TransposeLoop(t, src, i + 1, 0, rows, cols)
  ELSE TransposeLoop([t EXCEPT ![IDX2C(i, j, rows) + 1] = src[(i * cols + j) + 1]],
                     src, i, j + 1, rows, cols)

\* double* Transposed(): a fresh block holding the transposed host buffer.
\* ok: whether malloc can satisfy the request; the loops write through the
\* result unexamined and read through data unexamined.
Transposed(w, m, ok) ==
  LET n == Size(w, m)
      r == Malloc(w, n, ok)
      d == w.matrix[m].data
  IN  IF n = 0 THEN r
      ELSE IF r.p = NullPtr \/ ~Holds(w.hostHeap, d, n)
      THEN [w |-> Crash(r.w), p |-> r.p]
      ELSE [w |-> [r.w EXCEPT !.hostHeap[r.p].mem =
                     TransposeLoop(@, w.hostHeap[d].mem, 0, 0,
                                   w.matrix[m].rows, w.matrix[m].cols)],
            p |-> r.p]

\* IntoDevMatrix with the slip of transferring rows elements instead of
\* rows * cols.
IntoDevMatrix_RowsOnly(w, m, aok, cok) ==
  LET w1 == IF w.matrix[m].dev_data = NullPtr THEN AllocDevice(w, m, aok) ELSE w
  IN  IF ~Running(w1) THEN w1
      ELSE MemcpyHostToDevice(w1, w1.matrix[m].dev_data, w1.matrix[m].data,
                              w1.matrix[m].rows, cok)

\* void IntoDevMatrix(): aok answers cudaMalloc, cok cudaMemcpy.
IntoDevMatrix(w, m, aok, cok) ==
  LET w1 == IF w.matrix[m].dev_data = NullPtr THEN AllocDevice(w, m, aok) ELSE w
  IN  IF ~Running(w1) THEN w1
      ELSE MemcpyHostToDevice(w1, w1.matrix[m].dev_data, w1.matrix[m].data,
                              Size(w1, m), cok)

\* void IntoDevMatrix_ColMajor(): aok answers cudaMalloc, tok the malloc of
\* Transposed, cok cudaMemcpy.
IntoDevMatrix_ColMajor(w, m, aok, tok, cok) ==
  LET w1 == IF w.matrix[m].dev_data = NullPtr THEN AllocDevice(w, m, aok) ELSE w
      r  == Transposed(w1, m, tok)
      w2 == MemcpyHostToDevice(r.w, r.w.matrix[m].dev_data, r.p, Size(r.w, m), cok)
  IN  IF ~Running(w1) THEN w1
      ELSE IF ~Running(r.w) THEN r.w
      ELSE IF ~Running(w2) THEN w2
      ELSE Free(w2, r.p)

\* void FromDevMatrix(): hok answers malloc, cok cudaMemcpy.
FromDevMatrix(w, m, hok, cok) ==
  LET w1 == IF w.matrix[m].data = NullPtr THEN AllocHost(w, m, hok) ELSE w
  IN  MemcpyDeviceToHost(w1, w1.matrix[m].data, w1.matrix[m].dev_data,
                         Size(w1, m), cok)

\* void FromDevMatrix_ColMajor(): hok answers the malloc of AllocHost, cok
\* cudaMemcpy, tok the malloc of Transposed.
FromDevMatrix_ColMajor(w, m, hok, cok, tok) ==
  LET w1 == IF w.matrix[m].data = NullPtr THEN AllocHost(w, m, hok) ELSE w
      w2 == MemcpyDeviceToHost(w1, w1.matrix[m].data, w1.matrix[m].dev_data,
                               Size(w1, m), cok)
      r  == Transposed(w2, m, tok)
  IN  IF ~Running(w2) THEN w2
      ELSE IF ~Running(r.w) THEN r.w
      ELSE [Free(r.w, r.w.matrix[m].data) EXCEPT !.matrix[m].data = r.p]

\* ------------------------------------------------------------- comparison

\* abs on the difference of two doubles.
Abs(x) == IF x < 0 THEN 0 - x ELSE x

\* The loop of IsDeltaEqual with the slip of >= for >.
RECURSIVE DeltaLoop_Strict(_, _, _, _, _, _)
DeltaLoop_Strict(a, b, i, n, delta, g) ==
  IF i > n THEN [ret |-> TRUE, reads |-> i - 1]
  ELSE IF (IF a[i] = Garbage \/ b[i] = Garbage THEN g ELSE Abs(a[i] - b[i]) >= delta)
  THEN [ret |-> FALSE, reads |-> i]
  ELSE DeltaLoop_Strict(a, b, i + 1, n, delta, g)

\* The loop of IsDeltaEqual from offset i (1-based here): the answer and the
\* number of element pairs read.  A comparison that reads an indeterminate
\* element answers g.
RECURSIVE DeltaLoop(_, _, _, _, _, _)
DeltaLoop(a, b, i, n, delta, g) ==
  IF i > n THEN [ret |-> TRUE, reads |-> i - 1]
  ELSE IF (IF a[i] = Garbage \/ b[i] = Garbage THEN g ELSE Abs(a[i] - b[i]) > delta)
  THEN [ret |-> FALSE, reads |-> i]
  ELSE DeltaLoop(a, b, i + 1, n, delta, g)

\* bool IsDeltaEqual(const Matrix& other, double delta): the answer, the
\* number of element pairs read, and whether a read went through a pointer
\* that holds no such element.
IsDeltaEqual(w, m, other, delta, g) ==
  LET a == w.matrix[m]
      b == w.matrix[other]
      n == Size(w, m)
  IN  IF a.cols # b.cols \/ a.rows # b.rows
      THEN [ret |-> FALSE, reads |-> 0, fault |-> FALSE]
      ELSE IF n = 0
      THEN [ret |-> TRUE, reads |-> 0, fault |-> FALSE]
      ELSE IF ~Holds(w.hostHeap, a.data, n) \/ ~Holds(w.hostHeap, b.data, n)
      THEN [ret |-> g, reads |-> 0, fault |-> TRUE]
      ELSE [fault |-> FALSE] @@
           DeltaLoop(w.hostHeap[a.data].mem, w.hostHeap[b.data].mem, 1, n, delta, g)

\* ------------------------------------------------------------ the actions

Dims == 0..MaxDim

MoveDims == 1..MaxMoveDim

Deltas == 0..MaxDelta

\* The caller's fill of an n-element buffer: offset k (from 0) holds k + 1.
Iota(n) == [k \in 1..n |-> k]

\* The state after a call.  abort() and a fault end the process: nothing of
\* its memory remains, only the way it ended.
Commit(w) ==
  /\ status' = w.status
  /\ badFree' = w.badFree
  /\ IF Running(w)
     THEN /\ matrix' = w.matrix
          /\ hostHeap' = w.hostHeap
          /\ devHeap' = w.devHeap
     ELSE /\ matrix' = [m \in Mats |-> NoMatrix]
          /\ hostHeap' = [p \in HostPtrs |-> FreeBlock]
          /\ devHeap' = [p \in DevPtrs |-> FreeBlock]

Did(op, m, other) ==
  last' = [op |-> op, m |-> m, other |-> other, ret |-> FALSE, reads |-> 0,
           delta |-> 0]

Alive(m) == status = "running" /\ matrix[m].alive

Call_Matrix(m) ==
  /\ status = "running" /\ ~matrix[m].alive
  /\ Commit([World EXCEPT !.matrix[m] = EmptyMatrix])
  /\ Did("Matrix", m, m)

Call_SizedMatrix(m) ==
  /\ status = "running" /\ ~matrix[m].alive
  /\ \E inCols \in MoveDims, inRows \in MoveDims :
       Commit([World EXCEPT !.matrix[m] = SizedMatrix(inCols, inRows)])
  /\ Did("SizedMatrix", m, m)

Call_MoveConstruct(m) ==
  /\ status = "running" /\ ~matrix[m].alive
  /\ \E other \in Mats \ {m} :
       /\ matrix[other].alive
       /\ Commit(MoveConstruct(World, m, other))
       /\ Did("MoveConstruct", m, other)

Call_MoveAssign(m) ==
  /\ Alive(m)
  /\ \E other \in Mats :
       /\ matrix[other].alive
       /\ Commit(MoveAssign(World, m, other))
       /\ Did("MoveAssign", m, other)

Call_Destructor(m) ==
  /\ Alive(m)
  /\ Commit(Destructor(World, m))
  /\ Did("Destructor", m, m)

Call_FreeHost(m) ==
  /\ Alive(m)
  /\ Commit(FreeHost(World, m))
  /\ Did("FreeHost", m, m)

Call_FreeDevice(m) ==
  /\ Alive(m)
  /\ Commit(FreeDevice(World, m))
  /\ Did("FreeDevice", m, m)

Call_AllocHost(m) ==
  /\ Alive(m)
  /\ \E ok \in BOOLEAN : Commit(AllocHost(World, m, ok))
  /\ Did("AllocHost", m, m)

Call_AllocDevice(m) ==
  /\ Alive(m)
  /\ \E ok \in BOOLEAN : Commit(AllocDevice(World, m, ok))
  /\ Did("AllocDevice", m, m)

\* The caller stores the elements through the public data pointer.
Call_Fill(m) ==
  /\ Alive(m)
  /\ matrix[m].data # NullPtr
  /\ Commit([World EXCEPT !.hostHeap[matrix[m].data].mem = Iota(Len(@))])
  /\ Did("Fill", m, m)

Call_IntoDevMatrix(m) ==
  /\ Alive(m)
  /\ \E aok, cok \in BOOLEAN : Commit(IntoDevMatrix(World, m, aok, cok))
  /\ Did("IntoDevMatrix", m, m)

Call_IntoDevMatrix_ColMajor(m) ==
  /\ Alive(m)
  /\ \E aok, tok, cok \in BOOLEAN :
       Commit(IntoDevMatrix_ColMajor(World, m, aok, tok, cok))
  /\ Did("IntoDevMatrix_ColMajor", m, m)

Call_FromDevMatrix(m) ==
  /\ Alive(m)
  /\ \E hok, cok \in BOOLEAN : Commit(FromDevMatrix(World, m, hok, cok))
  /\ Did("FromDevMatrix", m, m)

Call_FromDevMatrix_ColMajor(m) ==
  /\ Alive(m)
  /\ \E hok, cok, tok \in BOOLEAN :
       Commit(FromDevMatrix_ColMajor(World, m, hok, cok, tok))
  /\ Did("FromDevMatrix_ColMajor", m, m)

Call_IsDeltaEqual(m) ==
  /\ Alive(m)
  /\ \E other \in Mats, delta \in Deltas, g \in BOOLEAN :
       LET r == IsDeltaEqual(World, m, other, delta, g) IN
       /\ matrix[other].alive
       /\ Commit(IF r.fault THEN Crash(World) ELSE World)
       /\ last' = [op |-> "IsDeltaEqual", m |-> m, other |-> other,
                   ret |-> r.ret, reads |-> r.reads, delta |-> delta]

Init ==
  /\ matrix = [m \in Mats |-> NoMatrix]
  /\ hostHeap = [p \in HostPtrs |-> FreeBlock]
  /\ devHeap = [p \in DevPtrs |-> FreeBlock]
  /\ status = "running"
  /\ badFree = FALSE
  /\ last = [op |-> "none", m |-> "A", other |-> "A", ret |-> FALSE, reads |-> 0,
             delta |-> 0]

Next ==
  \E m \in Mats :
    \/ Call_Matrix(m)
    \/ Call_SizedMatrix(m)
    \/ Call_MoveConstruct(m)
    \/ Call_MoveAssign(m)
    \/ Call_Destructor(m)
    \/ Call_FreeHost(m)
    \/ Call_FreeDevice(m)
    \/ Call_AllocHost(m)
    \/ Call_AllocDevice(m)
    \/ Call_Fill(m)
    \/ Call_IntoDevMatrix(m)
    \/ Call_IntoDevMatrix_ColMajor(m)
    \/ Call_FromDevMatrix(m)
    \/ Call_FromDevMatrix_ColMajor(m)

Spec == Init /\ [][Next]_vars

\* ------------------------------------------------ one matrix, transfer runs

\* The state after Matrix(inCols, inRows) for the matrix A.
InitXfer ==
  /\ \E inCols \in Dims, inRows \in Dims :
       matrix = [m \in Mats |-> IF m = "A" THEN SizedMatrix(inCols, inRows)
                                ELSE NoMatrix]
  /\ hostHeap = [p \in HostPtrs |-> FreeBlock]
  /\ devHeap = [p \in DevPtrs |-> FreeBlock]
  /\ status = "running"
  /\ badFree = FALSE
  /\ last = [op |-> "SizedMatrix", m |-> "A", other |-> "A",
             ret |-> FALSE, reads |-> 0, delta |-> 0]

NextXfer ==
  \E m \in {"A"} :
    \/ Call_MoveAssign(m)
    \/ Call_Destructor(m)
    \/ Call_FreeHost(m)
    \/ Call_FreeDevice(m)
    \/ Call_AllocHost(m)
    \/ Call_AllocDevice(m)
    \/ Call_Fill(m)
    \/ Call_IntoDevMatrix(m)
    \/ Call_IntoDevMatrix_ColMajor(m)
    \/ Call_FromDevMatrix(m)
    \/ Call_FromDevMatrix_ColMajor(m)
    \/ Call_IsDeltaEqual(m)

SpecXfer == InitXfer /\ [][NextXfer]_vars

\* ------------------------------------------- two matrices, comparison runs

\* Iota(n) with d added to the element at position pos.
Perturbed(n, pos, d) == [k \in 1..n |-> IF k = pos THEN k + d ELSE k]

\* The state after the caller has built and filled two matrices: A holds
\* Iota, B has A's shape or the swapped one and holds Iota with at most one
\* element moved by up to MaxDelta + 1.
InitEq ==
  /\ \E c \in Dims, r \in Dims, swap \in BOOLEAN, pos \in 1..(MaxDim * MaxDim),
        d \in 0..(MaxDelta + 1) :
       /\ pos <= c * r \/ (pos = 1 /\ d = 0)
       /\ matrix = [m \in Mats |->
            IF m = "A" THEN [SizedMatrix(c, r) EXCEPT !.data = 1]
            ELSE [(IF swap THEN SizedMatrix(r, c) ELSE SizedMatrix(c, r))
                    EXCEPT !.data = 2]]
       /\ hostHeap = [p \in HostPtrs |->
            IF p = 1 THEN [live |-> TRUE, mem |-> Iota(c * r)]
            ELSE IF p = 2 THEN [live |-> TRUE, mem |-> Perturbed(c * r, pos, d)]
            ELSE FreeBlock]
  /\ devHeap = [p \in DevPtrs |-> FreeBlock]
  /\ status = "running"
  /\ badFree = FALSE
  /\ last = [op |-> "Fill", m |-> "B", other |-> "B", ret |-> FALSE, reads |-> 0,
             delta |-> 0]

NextEq == \E m \in Mats : Call_IsDeltaEqual(m)

SpecEq == InitEq /\ [][NextEq]_vars

\* ------------------------------------------------------------- properties

Flags == BOOLEAN

HostMem(w, m) == w.hostHeap[w.matrix[m].data].mem

DevMem(w, m) == w.devHeap[w.matrix[m].dev_data].mem

\* The host buffer of m exists, has Size elements and every one was stored.
HostPopulated(w, m) ==
  /\ w.matrix[m].alive
  /\ Holds(w.hostHeap, w.matrix[m].data, Size(w, m))
  /\ Len(HostMem(w, m)) = Size(w, m)
  /\ \A k \in 1..Size(w, m) : HostMem(w, m)[k] # Garbage

\* The device buffer of m exists, has Size elements and every one was stored.
DevPopulated(w, m) ==
  /\ w.matrix[m].alive
  /\ Holds(w.devHeap, w.matrix[m].dev_data, Size(w, m))
  /\ Len(DevMem(w, m)) = Size(w, m)
  /\ \A k \in 1..Size(w, m) : DevMem(w, m)[k] # Garbage

LiveBlocks(heap) == {p \in DOMAIN heap : heap[p].live}

Cells(w, m) == (0..(w.matrix[m].rows - 1)) \X (0..(w.matrix[m].cols - 1))

\* C1: for every matrix with rows >= 1, cols >= 1 and a populated host
\* buffer H, IntoDevMatrix_ColMajor followed by FromDevMatrix_ColMajor leaves
\* the host buffer equal to H, element for element.
C1_ColMajorRoundTrip ==
  \A m \in Mats :
    (status = "running" /\ HostPopulated(World, m)
       /\ matrix[m].rows >= 1 /\ matrix[m].cols >= 1) =>
    \A aok, tok, cok, hok, cok2, tok2 \in Flags :
      LET w1 == IntoDevMatrix_ColMajor(World, m, aok, tok, cok)
          w2 == FromDevMatrix_ColMajor(w1, m, hok, cok2, tok2)
      IN  (Running(w1) /\ Running(w2)) =>
            /\ w2.matrix[m].data # NullPtr
            /\ HostMem(w2, m) = HostMem(World, m)

\* C7: FromDevMatrix_ColMajor on a device buffer that holds the matrix M in
\* column-major layout (M(i,j) at offset j*rows+i) leaves the host buffer
\* holding M in row-major layout (M(i,j) at offset i*cols+j); the
\* intermediate block is freed and the device buffer is unchanged.
C7_PullColMajorReadsColumnMajor ==
  \A m \in Mats :
    (status = "running" /\ DevPopulated(World, m)
       /\ matrix[m].rows >= 1 /\ matrix[m].cols >= 1) =>
    \A hok, cok, tok \in Flags :
      LET w2 == FromDevMatrix_ColMajor(World, m, hok, cok, tok)
      IN  Running(w2) =>
            /\ w2.matrix[m].data # NullPtr
            /\ Len(HostMem(w2, m)) = Size(World, m)
            /\ \A c \in Cells(World, m) :
                 HostMem(w2, m)[(c[1] * matrix[m].cols + c[2]) + 1]
                   = DevMem(World, m)[(c[2] * matrix[m].rows + c[1]) + 1]
            /\ w2.devHeap = devHeap
            /\ w2.matrix[m].dev_data = matrix[m].dev_data
            /\ Cardinality(LiveBlocks(w2.hostHeap)) = 1

\* C8: after IntoDevMatrix_ColMajor on a matrix with populated host buffer H
\* the device buffer holds H[i*cols+j] at offset j*rows+i for every cell
\* (i,j), the host pointer and the host contents are unchanged and the
\* temporary block of Transposed has been freed.
C8_PushColMajorLayout ==
  \A m \in Mats :
    (status = "running" /\ HostPopulated(World, m)) =>
    \A aok, tok, cok \in Flags :
      LET w1 == IntoDevMatrix_ColMajor(World, m, aok, tok, cok)
      IN  Running(w1) =>
            /\ w1.matrix[m].dev_data # NullPtr
            /\ Len(DevMem(w1, m)) = Size(World, m)
            /\ \A c \in Cells(World, m) :
                 DevMem(w1, m)[(c[2] * matrix[m].rows + c[1]) + 1]
                   = HostMem(World, m)[(c[1] * matrix[m].cols + c[2]) + 1]
            /\ w1.matrix[m].data = matrix[m].data
            /\ w1.hostHeap = hostHeap

\* A 2 x 3 matrix has been pushed column-major: the device holds the columns
\* one after the other while the host still holds the rows.
C8_Witness ==
  /\ status = "running"
  /\ last.op = "IntoDevMatrix_ColMajor"
  /\ matrix["A"].rows = 2 /\ matrix["A"].cols = 3
  /\ HostPopulated(World, "A") /\ DevPopulated(World, "A")
  /\ HostMem(World, "A") = <<1, 2, 3, 4, 5, 6>>
  /\ DevMem(World, "A") = <<1, 4, 2, 5, 3, 6>>

\* C5: for every matrix with a populated host buffer H, with or without a
\* device buffer, IntoDevMatrix leaves a non-null device buffer that holds H
\* at the same offsets, and FromDevMatrix after it leaves the host buffer
\* equal to H.
C5_RowMajorRoundTrip ==
  \A m \in Mats :
    (status = "running" /\ HostPopulated(World, m)) =>
    \A aok, cok, hok, cok2 \in Flags :
      LET w1 == IntoDevMatrix(World, m, aok, cok)
          w2 == FromDevMatrix(w1, m, hok, cok2)
      IN  /\ Running(w1) =>
               /\ w1.matrix[m].dev_data # NullPtr
               /\ w1.devHeap[w1.matrix[m].dev_data].live
               /\ DevMem(w1, m) = HostMem(World, m)
          /\ (Running(w1) /\ Running(w2)) =>
               /\ w2.matrix[m].data # NullPtr
               /\ HostMem(w2, m) = HostMem(World, m)

\* A filled matrix of several elements has been pushed and pulled row-major.
C5_Witness ==
  /\ status = "running"
  /\ last.op = "FromDevMatrix"
  /\ HostPopulated(World, "A") /\ DevPopulated(World, "A")
  /\ Size(World, "A") >= 2
  /\ HostMem(World, "A") = Iota(Size(World, "A"))
  /\ DevMem(World, "A") = HostMem(World, "A")

\* C4: every allocation is checked right after the call: AllocHost and
\* AllocDevice return normally only with the buffer they allocated; when the
\* allocator cannot satisfy the request the failure is reported instead.
C4_AllocationFailureIsReported ==
  (status = "running" /\ last.op \in {"AllocHost", "AllocDevice"}
     /\ Size(World, last.m) >= 1) =>
    /\ last.op = "AllocHost" => matrix[last.m].data # NullPtr
    /\ last.op = "AllocDevice" => matrix[last.m].dev_data # NullPtr

\* C2: no block is released twice, no matrix refers to a released block, no
\* two matrices refer to the same block, every live block (host, device, and
\* the temporary of Transposed) belongs to a matrix, and once every matrix is
\* destroyed no block remains allocated.
C2_ExactlyOnceOwnership ==
  /\ ~badFree
  /\ \A m \in Mats :
       /\ matrix[m].data # NullPtr => hostHeap[matrix[m].data].live
       /\ matrix[m].dev_data # NullPtr => devHeap[matrix[m].dev_data].live
       /\ ~matrix[m].alive => matrix[m].data = NullPtr /\ matrix[m].dev_data = NullPtr
  /\ \A m, n \in Mats :
       m # n =>
         /\ matrix[m].data # NullPtr => matrix[m].data # matrix[n].data
         /\ matrix[m].dev_data # NullPtr => matrix[m].dev_data # matrix[n].dev_data
  /\ \A p \in LiveBlocks(hostHeap) : \E m \in Mats : matrix[m].data = p
  /\ \A p \in LiveBlocks(devHeap) : \E m \in Mats : matrix[m].dev_data = p
  /\ (\A m \in Mats : ~matrix[m].alive) =>
       LiveBlocks(hostHeap) = {} /\ LiveBlocks(devHeap) = {}

\* Both matrices own a host and a device buffer after a transposing transfer.
C2_Witness ==
  /\ status = "running"
  /\ last.op \in {"IntoDevMatrix_ColMajor", "FromDevMatrix_ColMajor"}
  /\ \A m \in Mats : matrix[m].data # NullPtr /\ matrix[m].dev_data # NullPtr

\* What B = move(A) must leave, for a destination b and a source a # b.
MoveTransferred(w1, b, a) ==
  /\ w1.matrix[b].rows = matrix[a].rows
  /\ w1.matrix[b].cols = matrix[a].cols
  /\ w1.matrix[b].data = matrix[a].data
  /\ w1.matrix[b].dev_data = matrix[a].dev_data
  /\ matrix[a].data # NullPtr =>
       w1.hostHeap[matrix[a].data] = hostHeap[matrix[a].data]
  /\ matrix[a].dev_data # NullPtr =>
       w1.devHeap[matrix[a].dev_data] = devHeap[matrix[a].dev_data]
  /\ matrix[b].data # NullPtr => ~w1.hostHeap[matrix[b].data].live
  /\ matrix[b].dev_data # NullPtr => ~w1.devHeap[matrix[b].dev_data].live
  /\ w1.matrix[a].alive
  /\ w1.matrix[a].data = NullPtr /\ w1.matrix[a].dev_data = NullPtr
  /\ Destructor(w1, a).hostHeap = w1.hostHeap
  /\ Destructor(w1, a).devHeap = w1.devHeap
  /\ ~Destructor(w1, a).badFree

\* C3: for two matrices A and B, B in any state, after B = move(A) B holds
\* A's original rows, cols, host buffer and device buffer, B's previous
\* buffers have been released, and A holds two null pointers, so that
\* destroying A afterwards releases nothing.
C3_MoveTransfer ==
  \A a, b \in Mats :
    (status = "running" /\ a # b /\ matrix[a].alive) =>
      IF matrix[b].alive
      THEN MoveTransferred(MoveAssign(World, b, a), b, a)
      ELSE MoveTransferred(MoveConstruct(World, b, a), b, a)

\* A matrix with both buffers has taken over the buffers of another.
C3_Witness ==
  /\ status = "running"
  /\ last.op = "MoveAssign" /\ last.m # last.other
  /\ matrix[last.m].data # NullPtr /\ matrix[last.m].dev_data # NullPtr
  /\ Size(World, last.m) >= 1
  /\ matrix[last.other].alive
  /\ matrix[last.other].data = NullPtr /\ matrix[last.other].dev_data = NullPtr

\* rows and cols of every matrix are those before the call.
SameDims(w1) ==
  \A n \in Mats :
    /\ w1.matrix[n].rows = matrix[n].rows
    /\ w1.matrix[n].cols = matrix[n].cols

\* The device side of m is as before the call.
SameDevice(w1, m) ==
  /\ w1.matrix[m].dev_data = matrix[m].dev_data
  /\ w1.devHeap = devHeap

\* The host side of m is as before the call.
SameHost(w1, m) ==
  /\ w1.matrix[m].data = matrix[m].data
  /\ w1.hostHeap = hostHeap

\* C9: FreeHost and AllocHost leave the device buffer, rows and cols
\* unchanged; FreeDevice and AllocDevice leave the host buffer, rows and cols
\* unchanged; FreeHost and FreeDevice on a null pointer change nothing; and no
\* operation other than the move transfer changes rows or cols of a matrix.
C9_SingleSideFrame ==
  \A m \in Mats :
    (status = "running" /\ matrix[m].alive) =>
      /\ SameDevice(FreeHost(World, m), m) /\ SameDims(FreeHost(World, m))
      /\ SameHost(FreeDevice(World, m), m) /\ SameDims(FreeDevice(World, m))
      /\ matrix[m].data = NullPtr => FreeHost(World, m) = World
      /\ matrix[m].dev_data = NullPtr => FreeDevice(World, m) = World
      /\ \A ok \in Flags :
           /\ SameDevice(AllocHost(World, m, ok), m)
           /\ SameDims(AllocHost(World, m, ok))
           /\ SameHost(AllocDevice(World, m, ok), m)
           /\ SameDims(AllocDevice(World, m, ok))
      /\ \A f1, f2, f3 \in Flags :
           /\ SameDims(IntoDevMatrix(World, m, f1, f2))
           /\ SameDims(IntoDevMatrix_ColMajor(World, m, f1, f2, f3))
           /\ SameDims(FromDevMatrix(World, m, f1, f2))
           /\ SameDims(FromDevMatrix_ColMajor(World, m, f1, f2, f3))

\* FreeHost has released the host buffer of a matrix that keeps a device
\* buffer of at least one element.
C9_Witness ==
  /\ status = "running"
  /\ last.op = "FreeHost"
  /\ matrix[last.m].data = NullPtr
  /\ matrix[last.m].dev_data # NullPtr
  /\ Size(World, last.m) >= 1

\* C10: whenever the host or the device pointer of a matrix is non-null the
\* block it names is live and holds exactly rows * cols elements of that
\* matrix, whatever moves, allocations and transfers came before.
C10_CapacityIsSize ==
  \A m \in Mats :
    (status = "running" /\ matrix[m].alive) =>
      /\ matrix[m].data # NullPtr =>
           /\ hostHeap[matrix[m].data].live
           /\ Len(hostHeap[matrix[m].data].mem) = matrix[m].rows * matrix[m].cols
      /\ matrix[m].dev_data # NullPtr =>
           /\ devHeap[matrix[m].dev_data].live
           /\ Len(devHeap[matrix[m].dev_data].mem) = matrix[m].rows * matrix[m].cols

\* A matrix without device buffer has just allocated its host buffer of at
\* least one element next to a matrix of the same shape that owns both of its
\* buffers: the moved-from source of a transfer allocating again.
C10_Witness ==
  /\ status = "running"
  /\ last.op = "AllocHost"
  /\ \E n \in Mats \ {last.m} :
       /\ matrix[n].alive /\ matrix[last.m].alive
       /\ matrix[n].rows = matrix[last.m].rows
       /\ matrix[n].cols = matrix[last.m].cols
       /\ Size(World, n) >= 1
       /\ matrix[n].data # NullPtr /\ matrix[n].dev_data # NullPtr
       /\ matrix[last.m].data # NullPtr /\ matrix[last.m].dev_data = NullPtr

\* What IsDeltaEqual must answer for m and other under the tolerance delta.
DeltaEqualExpected(m, other, delta) ==
  /\ matrix[m].rows = matrix[other].rows
  /\ matrix[m].cols = matrix[other].cols
  /\ \A k \in 1..Size(World, m) :
       Abs(HostMem(World, m)[k] - HostMem(World, other)[k]) <= delta

\* C6: IsDeltaEqual answers false without reading an element when rows or
\* cols differ; with equal dimensions it answers true exactly when
\* |a[k] - b[k]| <= delta at every offset k, so a matrix equals itself and a
\* difference of exactly delta counts as equal.
C6_DeltaEqual ==
  /\ \A m, other \in Mats, delta \in Deltas, g \in Flags :
       (status = "running" /\ HostPopulated(World, m)
          /\ HostPopulated(World, other)) =>
         LET r == IsDeltaEqual(World, m, other, delta, g) IN
         /\ ~r.fault
         /\ r.ret <=> DeltaEqualExpected(m, other, delta)
         /\ (matrix[m].rows # matrix[other].rows
               \/ matrix[m].cols # matrix[other].cols) => r.reads = 0
         /\ m = other => r.ret
  /\ (status = "running" /\ last.op = "IsDeltaEqual") =>
       (last.ret <=> DeltaEqualExpected(last.m, last.other, last.delta))

\* Two matrices of several elements that differ in one element by exactly
\* the tolerance have been compared and found equal.
C6_Witness ==
  /\ status = "running"
  /\ last.op = "IsDeltaEqual" /\ last.m # last.other /\ last.ret
  /\ last.delta >= 1
  /\ Size(World, last.m) >= 2
  /\ \E k \in 1..Size(World, last.m) :
       Abs(HostMem(World, last.m)[k] - HostMem(World, last.other)[k]) = last.delta

====
